---- MODULE Spec2Model ----
(***************************************************************************)
(* Hand-gesture volume controller: the gesture manager                     *)
(* (src/gesture_manager.py), the volume controller                         *)
(* (src/volume_controller.py), the performance monitor                     *)
(* (src/performance_monitor.py) and the configuration manager              *)
(* (src/config_manager.py).                                                *)
(*                                                                         *)
(* Units.  Landmark coordinates are normalised floats in [0,1]; here they  *)
(* are integers in hundredths (0.05 is 5, 0.15 is 15).  Hand centres and   *)
(* the frame width are integers in one common unit.  Quotients are kept as *)
(* exact fractions [n, d] with d > 0 and compared by cross-multiplication, *)
(* so the arithmetic is that of the reals: rounding of IEEE doubles is not *)
(* modelled.  Landmark sets are chosen so that every Euclidean distance    *)
(* the code takes is a whole number of hundredths.                         *)
(***************************************************************************)
EXTENDS Integers, Sequences, FiniteSets, TLC

VARIABLES
    history_length,     \* GestureManager.history_length
    hand_positions,     \* GestureManager.hand_positions, a deque(maxlen=history_length)
    landmarks,          \* argument: the landmarks of the observation
    handedness,         \* argument: "Right" or "Left"
    hand_center,        \* argument: <<x, y>>
    history_positions,  \* argument: the list of previous hand centres
    frame_width,        \* argument
    gesture,            \* what recognize_gesture returned ("pending": not called yet)
    swipe,              \* what detect_swipe returned ("pending": not called yet)
    centers,            \* tracking session: the hand centres of the frames so far
    labels,             \* tracking session: the labels returned so far
    smoothing_window,   \* maxlen of the controller's two deques
    distance_history,   \* HandGestureVolumeController.distance_history
    fingers_history,    \* HandGestureVolumeController.fingers_history
    volume_level,       \* what process_frame returned as volume level: <<>> for
                        \* None, <<level>> otherwise
    emitted,            \* the levels handed to set_volume, the two most recent
    raised,             \* what a digit-counting routine returned: <<>> before the
                        \* call, <<routine, result>> after it
    window_size,        \* PerformanceMonitor.window_size
    frame_times,        \* PerformanceMonitor.frame_times, deque(maxlen=window_size)
    gesture_times,      \* PerformanceMonitor.gesture_recognition_times
    volume_times,       \* PerformanceMonitor.volume_control_times
    frame_count,        \* PerformanceMonitor.frame_count
    lock,               \* PerformanceMonitor.lock: 0 when free, else the thread
                        \* that holds it
    stack,              \* per thread, the calls in progress, innermost last
    completed,          \* record_frame calls that have returned
    config,             \* ConfigManager.config, the ApplicationConfig
    config_file,        \* what is stored at config_path
    outcome             \* the last ConfigManager call: its name, argument, what
                        \* it returned and what it raised

managerVars == <<history_length, hand_positions>>
callVars == <<landmarks, handedness, hand_center, history_positions, frame_width>>
sessionVars == <<centers, labels>>
controllerVars == <<smoothing_window, distance_history, fingers_history,
                    volume_level, emitted>>

monitorVars == <<window_size, frame_times, gesture_times, volume_times,
                 frame_count, lock, stack, completed>>
configVars == <<config, config_file, outcome>>
componentVars == <<raised, monitorVars, configVars>>

vars == <<managerVars, callVars, gesture, swipe, sessionVars, controllerVars,
          componentVars>>

-----------------------------------------------------------------------------
(* Bounds of the model *)

\* longest history list handed to a single call
MaxHistory == 3
\* frames of a tracking session
MaxFrames == 5
\* largest smoothing window a controller is built with
MaxWindow == 3

-----------------------------------------------------------------------------
(* GestureType, src/gesture_manager.py:14-29 *)

PINCH == "pinch"
OPEN_HAND == "open_hand"
PEACE == "peace"
THUMBS_UP == "thumbs_up"
ROCK == "rock"
OK_SIGN == "ok_sign"
PALM == "palm"
SWIPE_LEFT == "swipe_left"
SWIPE_RIGHT == "swipe_right"
SWIPE_UP == "swipe_up"
SWIPE_DOWN == "swipe_down"
POINT == "point"
FIST == "fist"
UNKNOWN == "unknown"

GestureType ==
    {PINCH, OPEN_HAND, PEACE, THUMBS_UP, ROCK, OK_SIGN, PALM, SWIPE_LEFT,
     SWIPE_RIGHT, SWIPE_UP, SWIPE_DOWN, POINT, FIST, UNKNOWN}

None == "None"
Pending == "pending"

-----------------------------------------------------------------------------
(* Arithmetic *)

Abs(a) == IF a < 0 THEN -a ELSE a

\* math.sqrt on the squares the model's landmark sets produce (exact roots only)
Sqrt(n) == CHOOSE r \in 0..n : r * r = n

\* a / b for b # 0, as a fraction with a positive denominator
Div(a, b) == IF b > 0 THEN [n |-> a, d |-> b] ELSE [n |-> -a, d |-> -b]
RAbs(q) == [n |-> Abs(q.n), d |-> q.d]
RGt(p, q) == p.n * q.d > q.n * p.d
RLt(p, q) == p.n * q.d < q.n * p.d

\* sum of the booleans of a Python list
CountTrue(bs) == Cardinality({i \in DOMAIN bs : bs[i]})

-----------------------------------------------------------------------------
(* GestureManager *)

swipe_threshold == [n |-> 1, d |-> 10]
min_gesture_frames == 3
history_length_default == 5
smoothing_window_default == 5

calculate_distance(point1, point2) ==
    Sqrt((point1.x - point2.x) * (point1.x - point2.x)
         + (point1.y - point2.y) * (point1.y - point2.y))

is_finger_raised(finger_tip, finger_pip) == finger_tip.y < finger_pip.y

detect_peace_sign(lm, hd) ==
    /\ is_finger_raised(lm[8], lm[6])
    /\ is_finger_raised(lm[12], lm[10])
    /\ ~is_finger_raised(lm[16], lm[14])
    /\ ~is_finger_raised(lm[20], lm[18])

detect_thumbs_up(lm) ==
    /\ lm[4].y < lm[3].y
    /\ lm[4].y < lm[9].y
    /\ calculate_distance(lm[4], lm[3]) > 5

detect_rock_gesture(lm) ==
    /\ is_finger_raised(lm[8], lm[6])
    /\ is_finger_raised(lm[20], lm[18])
    /\ ~is_finger_raised(lm[12], lm[10])
    /\ ~is_finger_raised(lm[16], lm[14])

detect_ok_sign(lm) ==
    LET thumb_index_distance == calculate_distance(lm[4], lm[8])
        other_fingers_up ==
            CountTrue(<<is_finger_raised(lm[12], lm[10]),
                        is_finger_raised(lm[16], lm[14]),
                        is_finger_raised(lm[20], lm[18])>>) >= 2
    IN  thumb_index_distance < 5 /\ other_fingers_up

detect_pointing(lm) ==
    /\ is_finger_raised(lm[8], lm[6])
    /\ ~is_finger_raised(lm[12], lm[10])
    /\ ~is_finger_raised(lm[16], lm[14])
    /\ ~is_finger_raised(lm[20], lm[18])

detect_palm_open(lm) ==
    CountTrue(<<is_finger_raised(lm[8], lm[6]),
                is_finger_raised(lm[12], lm[10]),
                is_finger_raised(lm[16], lm[14]),
                is_finger_raised(lm[20], lm[18]),
                lm[4].y < lm[3].y>>) >= 4

detect_fist(lm) ==
    CountTrue(<<is_finger_raised(lm[8], lm[6]),
                is_finger_raised(lm[12], lm[10]),
                is_finger_raised(lm[16], lm[14]),
                is_finger_raised(lm[20], lm[18])>>) = 0

\* detect_swipe with non-strict dominance tests (a tie would give a swipe)
detect_swipe_tie(current_position, hist, width) ==
    IF Len(hist) < min_gesture_frames
    THEN None
    ELSE LET oldest_position == hist[1]
             displacement_x == Div(current_position[1] - oldest_position[1], width)
             displacement_y == Div(current_position[2] - oldest_position[2], width)
         IN  IF /\ RGt(RAbs(displacement_x), swipe_threshold)
                /\ ~RLt(RAbs(displacement_x), RAbs(displacement_y))
             THEN IF displacement_x.n > 0 THEN SWIPE_RIGHT ELSE SWIPE_LEFT
             ELSE IF /\ RGt(RAbs(displacement_y), swipe_threshold)
                     /\ ~RLt(RAbs(displacement_y), RAbs(displacement_x))
                  THEN IF displacement_y.n < 0 THEN SWIPE_UP ELSE SWIPE_DOWN
                  ELSE None

\* detect_swipe with the minimum-samples test off by one
detect_swipe_two_frames(current_position, hist, width) ==
    IF Len(hist) < min_gesture_frames - 1
    THEN None
    ELSE LET oldest_position == hist[1]
             displacement_x == Div(current_position[1] - oldest_position[1], width)
             displacement_y == Div(current_position[2] - oldest_position[2], width)
         IN  IF /\ RGt(RAbs(displacement_x), swipe_threshold)
                /\ RGt(RAbs(displacement_x), RAbs(displacement_y))
             THEN IF displacement_x.n > 0 THEN SWIPE_RIGHT ELSE SWIPE_LEFT
             ELSE IF /\ RGt(RAbs(displacement_y), swipe_threshold)
                     /\ RGt(RAbs(displacement_y), RAbs(displacement_x))
                  THEN IF displacement_y.n < 0 THEN SWIPE_UP ELSE SWIPE_DOWN
                  ELSE None

detect_swipe(current_position, hist, width) ==
    IF Len(hist) < min_gesture_frames
    THEN None
    ELSE LET oldest_position == hist[1]
             displacement_x == Div(current_position[1] - oldest_position[1], width)
             displacement_y == Div(current_position[2] - oldest_position[2], width)
         IN  IF /\ RGt(RAbs(displacement_x), swipe_threshold)
                /\ RGt(RAbs(displacement_x), RAbs(displacement_y))
             THEN IF displacement_x.n > 0 THEN SWIPE_RIGHT ELSE SWIPE_LEFT
             ELSE IF /\ RGt(RAbs(displacement_y), swipe_threshold)
                     /\ RGt(RAbs(displacement_y), RAbs(displacement_x))
                  THEN IF displacement_y.n < 0 THEN SWIPE_UP ELSE SWIPE_DOWN
                  ELSE None

\* the pinch/open-hand fallback of recognize_gesture
Fallback(lm) ==
    LET thumb_index_dist == calculate_distance(lm[4], lm[8])
    IN  IF thumb_index_dist < 5 THEN PINCH
        ELSE IF thumb_index_dist > 15 THEN OPEN_HAND
        ELSE UNKNOWN

\* recognize_gesture with peace tested before thumbs-up
recognize_gesture_peace_first(lm, hd, center, hist, width) ==
    IF detect_peace_sign(lm, hd) THEN PEACE
    ELSE IF detect_thumbs_up(lm) THEN THUMBS_UP
    ELSE IF detect_rock_gesture(lm) THEN ROCK
    ELSE IF detect_ok_sign(lm) THEN OK_SIGN
    ELSE IF detect_pointing(lm) THEN POINT
    ELSE IF detect_palm_open(lm) THEN PALM
    ELSE IF detect_fist(lm) THEN FIST
    ELSE LET sw == detect_swipe(center, hist, width)
         IN  IF sw # None THEN sw ELSE Fallback(lm)

\* recognize_gesture with the swipe check ahead of the pose cascade
recognize_gesture_swipe_first(lm, hd, center, hist, width) ==
    LET sw == detect_swipe(center, hist, width)
    IN  IF sw # None THEN sw
        ELSE IF detect_thumbs_up(lm) THEN THUMBS_UP
        ELSE IF detect_peace_sign(lm, hd) THEN PEACE
        ELSE IF detect_rock_gesture(lm) THEN ROCK
        ELSE IF detect_ok_sign(lm) THEN OK_SIGN
        ELSE IF detect_pointing(lm) THEN POINT
        ELSE IF detect_palm_open(lm) THEN PALM
        ELSE IF detect_fist(lm) THEN FIST
        ELSE Fallback(lm)

\* recognize_gesture with a fallback whose pinch test is non-strict
recognize_gesture_closed_pinch(lm, hd, center, hist, width) ==
    IF detect_thumbs_up(lm) THEN THUMBS_UP
    ELSE IF detect_peace_sign(lm, hd) THEN PEACE
    ELSE IF detect_rock_gesture(lm) THEN ROCK
    ELSE IF detect_ok_sign(lm) THEN OK_SIGN
    ELSE IF detect_pointing(lm) THEN POINT
    ELSE IF detect_palm_open(lm) THEN PALM
    ELSE IF detect_fist(lm) THEN FIST
    ELSE LET sw == detect_swipe(center, hist, width)
         IN  IF sw # None THEN sw
             ELSE IF calculate_distance(lm[4], lm[8]) <= 5 THEN PINCH
                  ELSE IF calculate_distance(lm[4], lm[8]) > 15 THEN OPEN_HAND
                  ELSE UNKNOWN

recognize_gesture(lm, hd, center, hist, width) ==
    IF detect_thumbs_up(lm) THEN THUMBS_UP
    ELSE IF detect_peace_sign(lm, hd) THEN PEACE
    ELSE IF detect_rock_gesture(lm) THEN ROCK
    ELSE IF detect_ok_sign(lm) THEN OK_SIGN
    ELSE IF detect_pointing(lm) THEN POINT
    ELSE IF detect_palm_open(lm) THEN PALM
    ELSE IF detect_fist(lm) THEN FIST
    ELSE LET sw == detect_swipe(center, hist, width)
         IN  IF sw # None THEN sw
             ELSE LET thumb_index_dist == calculate_distance(lm[4], lm[8])
                  IN  IF thumb_index_dist < 5 THEN PINCH
                      ELSE IF thumb_index_dist > 15 THEN OPEN_HAND
                      ELSE UNKNOWN

-----------------------------------------------------------------------------
(* Inputs: the observations, hand centres and histories the calls are made on *)

Pt(px, py) == [x |-> px, y |-> py]

\* The landmarks the code reads: thumb pip/tip 3/4, index pip/tip 6/8, middle mcp 9,
\* middle 10/12, ring 14/16, pinky 18/20.  The thumb tip is at (50,50).
Observation(thumb_pip, mcp_y, index_pip_y, index_tip, mid_y, ring_y, pinky_y) ==
    (3 :> thumb_pip) @@ (4 :> Pt(50, 50)) @@ (6 :> Pt(50, index_pip_y))
    @@ (8 :> index_tip) @@ (9 :> Pt(55, mcp_y))
    @@ (10 :> Pt(55, 40)) @@ (12 :> Pt(55, mid_y))
    @@ (14 :> Pt(60, 40)) @@ (16 :> Pt(60, ring_y))
    @@ (18 :> Pt(65, 40)) @@ (20 :> Pt(65, pinky_y))

ThumbPips == {Pt(50, 58), Pt(53, 54), Pt(50, 44)}
IndexTips == {Pt(50, 48), Pt(53, 46), Pt(50, 40), Pt(50, 35), Pt(50, 28)}

Observations ==
    {Observation(tp, my, ipy, it, m, r, p) :
        tp \in ThumbPips, my \in {45, 60}, ipy \in {40, 49}, it \in IndexTips,
        m \in {30, 40}, r \in {30, 45}, p \in {30, 45}}

Handednesses == {"Right", "Left"}

Centers == {<<50, 50>>, <<61, 50>>, <<60, 50>>, <<50, 61>>, <<39, 50>>}
PastCenters == {<<50, 50>>, <<61, 61>>}
FrameWidths == {100, 50}

SeqsUpTo(S, k) == UNION {[1..m -> S] : m \in 0..k}

Histories == SeqsUpTo(PastCenters, MaxHistory)

-----------------------------------------------------------------------------
(* The configuration dataclasses, src/config_manager.py:15-71.  Distances,   *)
(* thresholds and the sensitivity are in hundredths, min_change_threshold   *)
(* in percentage points.  A keyword dictionary is a function from its keys  *)
(* to their values.                                                          *)

VolumeConfigDefaults ==
    [min_distance |-> 2, max_distance |-> 30, smoothing_window |-> 5,
     sensitivity |-> 100, min_change_threshold |-> 2]

GestureConfigDefaults ==
    [enabled_gestures |-> <<"pinch", "peace", "thumbs_up", "rock", "pointing",
                            "swipe">>,
     confidence_threshold |-> 70, history_length |-> 5, swipe_threshold |-> 10]

DisplayConfigDefaults ==
    [show_fps |-> TRUE, show_volume |-> TRUE, show_gesture_info |-> TRUE,
     show_hand_landmarks |-> TRUE, font_size |-> 14, overlay_opacity |-> 80,
     debug_mode |-> FALSE]

CameraConfigDefaults ==
    [camera_id |-> 0, width |-> 640, height |-> 480, fps |-> 30,
     flip_horizontal |-> TRUE]

\* the generated __init__ of a dataclass whose fields all have defaults: a
\* keyword that is no field is a TypeError, a field not given takes its default
AcceptsKeywords(defaults, kwargs) == DOMAIN kwargs \subseteq DOMAIN defaults

Dataclass(defaults, kwargs) ==
    [f \in DOMAIN defaults |-> IF f \in DOMAIN kwargs THEN kwargs[f] ELSE defaults[f]]

\* The value of an attribute of the ApplicationConfig is kept with its type:
\* <<"VolumeConfig", fields>>, ..., or <<"bool", b>>.
Instance(class, fields) == <<class, fields>>
Bool(b) == <<"bool", b>>

SectionNames == <<"volume", "gesture", "display", "camera">>
SectionClass ==
    [volume |-> "VolumeConfig", gesture |-> "GestureConfig",
     display |-> "DisplayConfig", camera |-> "CameraConfig"]
SectionDefaults ==
    [volume |-> VolumeConfigDefaults, gesture |-> GestureConfigDefaults,
     display |-> DisplayConfigDefaults, camera |-> CameraConfigDefaults]
FlagNames ==
    <<"enable_multi_gesture", "enable_gesture_recording",
      "enable_brightness_control", "enable_mute_gesture", "enable_statistics">>

\* ApplicationConfig()
ApplicationConfig ==
    [volume |-> Instance("VolumeConfig", VolumeConfigDefaults),
     gesture |-> Instance("GestureConfig", GestureConfigDefaults),
     display |-> Instance("DisplayConfig", DisplayConfigDefaults),
     camera |-> Instance("CameraConfig", CameraConfigDefaults),
     enable_multi_gesture |-> Bool(TRUE),
     enable_gesture_recording |-> Bool(FALSE),
     enable_brightness_control |-> Bool(FALSE),
     enable_mute_gesture |-> Bool(TRUE),
     enable_statistics |-> Bool(TRUE)]

\* what is stored at config_path
NoFile == <<"absent">>
Unreadable == <<"unreadable">>
Malformed == <<"malformed">>
Json(dict) == <<"json", dict>>

\* the record of a ConfigManager call
Outcome(name, arg, returned, exception) ==
    [op |-> name, arg |-> arg, returned |-> returned, raised |-> exception]
NoException == "none"

-----------------------------------------------------------------------------
(* PerformanceMonitor after __init__, src/performance_monitor.py:17-29 *)

Threads == {1, 2}
Free == 0

InitMonitor(size) ==
    /\ window_size = size
    /\ frame_times = <<>>
    /\ gesture_times = <<>>
    /\ volume_times = <<>>
    /\ frame_count = 0
    /\ lock = Free
    /\ stack = [t \in Threads |-> <<>>]
    /\ completed = 0

\* the components a specification does not exercise, as constructed
InitIdleConfig ==
    /\ config = ApplicationConfig
    /\ config_file = NoFile
    /\ outcome = Outcome("__init__", "", <<>>, NoException)

InitComponents ==
    /\ raised = <<>>
    /\ InitMonitor(30)
    /\ InitIdleConfig

-----------------------------------------------------------------------------------------------------------------------------------------------------
(* The manager and the controller after __init__ *)

InitManager ==
    /\ hand_positions = <<>>
    /\ centers = <<>>
    /\ labels = <<>>

InitController ==
    /\ distance_history = <<>>
    /\ fingers_history = <<>>
    /\ volume_level = <<>>
    /\ emitted = <<>>

-----------------------------------------------------------------------------
(* Spec: single calls of recognize_gesture and detect_swipe on every input *)

Init ==
    /\ InitManager
    /\ InitController
    /\ InitComponents
    /\ history_length = history_length_default
    /\ smoothing_window = smoothing_window_default
    /\ landmarks \in Observations
    /\ handedness \in Handednesses
    /\ hand_center \in Centers
    /\ history_positions \in Histories
    /\ frame_width \in FrameWidths
    /\ gesture = Pending
    /\ swipe = Pending

\* recognize_gesture is called on the arguments; it assigns no attribute of the
\* manager and does not touch the list it is given.
RecognizeGesture ==
    /\ gesture = Pending
    /\ swipe = Pending
    /\ gesture' = recognize_gesture(landmarks, handedness, hand_center,
                                    history_positions, frame_width)
    /\ UNCHANGED <<managerVars, callVars, swipe, sessionVars, controllerVars,
                 componentVars>>

\* detect_swipe is called directly on the arguments
DetectSwipe ==
    /\ gesture = Pending
    /\ swipe = Pending
    /\ swipe' = detect_swipe(hand_center, history_positions, frame_width)
    /\ UNCHANGED <<managerVars, callVars, gesture, sessionVars, controllerVars,
                 componentVars>>

Next == RecognizeGesture \/ DetectSwipe

Spec == Init /\ [][Next]_vars


-----------------------------------------------------------------------------
(* SessionSpec: a tracking session of the gesture manager.  Each frame is      *)
(* recognised with the manager's own position history, hand_positions, as the  *)
(* history argument.                                                           *)

\* the last n elements of q
LastN(q, n) == SubSeq(q, IF Len(q) > n THEN Len(q) - n + 1 ELSE 1, Len(q))

\* observations of a session: no pose (unknown), no pose (open hand), thumbs-up
SessionObservations ==
    {Observation(Pt(50, 44), 45, 40, Pt(50, 40), 30, 45, 45),
     Observation(Pt(50, 44), 45, 40, Pt(50, 72), 30, 45, 45),
     Observation(Pt(50, 58), 60, 40, Pt(50, 40), 30, 45, 45)}

\* the centre of the next frame: the hand stays where it is or moves 0.15 of
\* the frame width along x, either way
NextCenters ==
    IF centers = <<>>
    THEN {<<80, 50>>}
    ELSE {<<centers[Len(centers)][1] + s * ((15 * frame_width) \div 100),
            centers[Len(centers)][2]>> : s \in {-1, 0, 1}}

SessionInit ==
    /\ InitManager
    /\ InitController
    /\ InitComponents
    /\ history_length \in 1..history_length_default
    /\ smoothing_window = smoothing_window_default
    /\ landmarks = None
    /\ handedness \in Handednesses
    /\ hand_center = None
    /\ history_positions = <<>>
    /\ frame_width = 100
    /\ gesture = Pending
    /\ swipe = Pending

\* a frame whose call also records the centre in the manager's history
TrackFrame_recording(obs, center) ==
    /\ Len(centers) < MaxFrames
    /\ landmarks' = obs
    /\ hand_center' = center
    /\ history_positions' = hand_positions
    /\ gesture' = recognize_gesture(obs, handedness, center, hand_positions,
                                    frame_width)
    /\ hand_positions' = LastN(Append(hand_positions, center), history_length)
    /\ centers' = Append(centers, center)
    /\ labels' = Append(labels, gesture')
    /\ UNCHANGED <<history_length, handedness, frame_width, swipe, controllerVars,
                   componentVars>>

\* one frame: recognize_gesture(landmarks, handedness, center, hand_positions,
\* frame_width).  The call returns its label and assigns nothing.
TrackFrame(obs, center) ==
    /\ Len(centers) < MaxFrames
    /\ landmarks' = obs
    /\ hand_center' = center
    /\ history_positions' = hand_positions
    /\ gesture' = recognize_gesture(obs, handedness, center, hand_positions,
                                    frame_width)
    /\ centers' = Append(centers, center)
    /\ labels' = Append(labels, gesture')
    /\ UNCHANGED <<managerVars, handedness, frame_width, swipe, controllerVars,
                   componentVars>>

SessionNext == \E obs \in SessionObservations, c \in NextCenters : TrackFrame(obs, c)

SessionSpec == SessionInit /\ [][SessionNext]_vars

\* C3: after k calls the position history holds the last
\* min(k, history_length) hand centres in arrival order.
C3_HistoryHoldsLastCenters == hand_positions = LastN(centers, history_length)

PoseLabels == {THUMBS_UP, PEACE, ROCK, OK_SIGN, POINT, PALM, FIST}

\* five frames from an empty history, x decreasing by 0.15 of the frame width
\* per frame, no pose rule matching in any of them
SwipeLeftRun ==
    /\ Len(centers) = 5
    /\ \A i \in 2..5 :
          /\ 100 * (centers[i - 1][1] - centers[i][1]) = 15 * frame_width
          /\ centers[i][2] = centers[i - 1][2]
    /\ \A i \in 1..5 : labels[i] \notin PoseLabels

\* the displacement from the first frame exceeds 0.1 of the frame width
Exceeds(i) == 10 * Abs(centers[i][1] - centers[1][1]) > frame_width

\* C10: in such a run SwipeLeft is the label of the frame where the cumulative
\* displacement first exceeds the threshold.
C10_SwipeLeftOnFirstExceeding ==
    SwipeLeftRun =>
        \E i \in 1..5 :
            /\ Exceeds(i)
            /\ \A j \in 1..(i - 1) : ~Exceeds(j)
            /\ labels[i] = SWIPE_LEFT

\* C16: recognize_gesture is a function of the observation it is given: the
\* call changes nothing the manager holds (position history, capacity), and a
\* second call on the identical observation returns the identical label.
C16_ClassificationIsPure ==
    [][/\ hand_positions' = hand_positions
       /\ history_length' = history_length
       /\ (/\ Len(centers) >= 1
           /\ landmarks' = landmarks
           /\ hand_center' = hand_center
           /\ handedness' = handedness
           /\ frame_width' = frame_width) => gesture' = gesture]_vars

\* the third and fourth frame are the identical thumbs-up observation at the
\* identical centre, after the hand has moved, and carry the identical label
C16_Witness ==
    /\ Len(centers) >= 4
    /\ centers[2] # centers[1]
    /\ centers[4] = centers[3]
    /\ labels[3] = THUMBS_UP
    /\ labels[4] = THUMBS_UP

-----------------------------------------------------------------------------
(* HandGestureVolumeController *)

\* VolumeConfig.min_change_threshold, in percentage points
min_change_threshold == 2

RECURSIVE Sum(_)
Sum(q) == IF q = <<>> THEN 0 ELSE q[1] + Sum(Tail(q))

\* deque(maxlen=n).append where the full deque drops its newest entry instead
DequeAppend_evict_newest(q, x, maxlen) ==
    IF maxlen = 0 THEN q
    ELSE IF Len(q) = maxlen THEN Append(SubSeq(q, 1, Len(q) - 1), x)
    ELSE Append(q, x)

\* deque(maxlen=n).append(x): a full deque discards its oldest entry
DequeAppend(q, x, maxlen) ==
    IF maxlen = 0 THEN q
    ELSE IF Len(q) = maxlen THEN Append(Tail(q), x)
    ELSE Append(q, x)

controller_calculate_distance(point1, point2) ==
    Sqrt((point1.x - point2.x) * (point1.x - point2.x)
         + (point1.y - point2.y) * (point1.y - point2.y))

count_fingers(lm, hd) ==
    LET thumb ==
            IF hd = "Right"
            THEN (IF lm[4].x < lm[3].x THEN 1 ELSE 0)
            ELSE (IF lm[4].x > lm[3].x THEN 1 ELSE 0)
        others == Cardinality({i \in {<<8, 6>>, <<12, 10>>, <<16, 14>>, <<20, 18>>} :
                                  lm[i[1]].y < lm[i[2]].y})
    IN  thumb + others

RMin(p, q) == IF RLt(q, p) THEN q ELSE p
RMax(p, q) == IF RGt(q, p) THEN q ELSE p
Whole(k) == [n |-> k, d |-> 1]

\* the mapping without its upper clamp
MapVolume_unclamped(smoothed_distance) ==
    RMax(Whole(0),
         [n |-> (smoothed_distance.n - 2 * smoothed_distance.d) * 100,
          d |-> smoothed_distance.d * (30 - 2)])

\* max(0, min(100, (smoothed_distance - 0.02) / (0.3 - 0.02) * 100)), the
\* distance in hundredths
MapVolume(smoothed_distance) ==
    RMax(Whole(0),
         RMin(Whole(100),
              [n |-> (smoothed_distance.n - 2 * smoothed_distance.d) * 100,
               d |-> smoothed_distance.d * (30 - 2)]))

\* process_frame on a frame with one detected hand (max_num_hands=1)
ProcessFrame(lm, hd) ==
    LET distance == controller_calculate_distance(lm[4], lm[8])
        window == DequeAppend(distance_history, distance, smoothing_window)
        smoothed_distance == Div(Sum(window), Len(window))
        fingers_count == count_fingers(lm, hd)
        level == MapVolume(smoothed_distance)
    IN  /\ distance_history' = window
        /\ fingers_history' = DequeAppend(fingers_history, fingers_count,
                                          smoothing_window)
        /\ volume_level' = <<level>>
        /\ emitted' = LastN(Append(emitted, level), 2)
        /\ UNCHANGED <<managerVars, callVars, gesture, swipe, sessionVars,
                       smoothing_window, componentVars>>

\* a no-hand frame that records a distance of 0 in the window
ProcessFrameNoHand_records_zero ==
    /\ volume_level' = <<>>
    /\ distance_history' = DequeAppend(distance_history, 0, smoothing_window)
    /\ UNCHANGED <<managerVars, callVars, gesture, swipe, sessionVars,
                   smoothing_window, fingers_history, emitted,
                   componentVars>>

\* process_frame on a frame in which no hand is detected
ProcessFrameNoHand ==
    /\ volume_level' = <<>>
    /\ UNCHANGED <<managerVars, callVars, gesture, swipe, sessionVars,
                   smoothing_window, distance_history, fingers_history, emitted,
                   componentVars>>

\* observations of the controller's frames: the thumb tip at (50,50), the index
\* tip at distance 1, 2, 10, 30 and 40 hundredths
VolumeObservations ==
    {Observation(Pt(53, 54), 60, 40, Pt(50, 50 - dist), 30, 45, 45) :
        dist \in {1, 2, 10, 30, 40}}

HandFrames ==
    (VolumeObservations \X {"Right"})
    \cup {<<Observation(Pt(53, 54), 60, 40, Pt(50, 40), 30, 45, 45), "Left">>}

\* VolumeSpec: a controller processing frames, beside a manager that is called
\* once on an observation
VolumeInit ==
    /\ InitManager
    /\ InitController
    /\ InitComponents
    /\ history_length = history_length_default
    /\ smoothing_window \in 1..MaxWindow
    /\ landmarks = Observation(Pt(50, 58), 60, 40, Pt(50, 40), 30, 45, 45)
    /\ handedness = "Right"
    /\ hand_center = <<50, 50>>
    /\ history_positions = hand_positions
    /\ frame_width = 100
    /\ gesture = Pending
    /\ swipe = Pending

VolumeNext ==
    \/ \E f \in HandFrames : ProcessFrame(f[1], f[2])
    \/ ProcessFrameNoHand
    \/ RecognizeGesture
    \/ DetectSwipe

VolumeSpec == VolumeInit /\ [][VolumeNext]_vars

\* C4: two consecutively emitted levels differ by at least the gate,
\* min_change_threshold percentage points: a level closer than that to the last
\* emitted one is suppressed.
C4_EmittedLevelsDifferByGate ==
    Len(emitted) = 2 =>
        Abs(emitted[2].n * emitted[1].d - emitted[1].n * emitted[2].d)
            >= min_change_threshold * emitted[1].d * emitted[2].d

\* C5: the level handed to the actuator, and returned, is the linear map of the
\* mean of the distance window from [0.02, 0.3] onto [0, 100], clamped: it lies
\* in [0, 100], is 0 for a mean at or below 0.02 and 100 for a mean at or
\* above 0.3.
C5_LevelIsClampedLinearMap ==
    emitted # <<>> =>
        LET lvl == emitted[Len(emitted)]
            total == Sum(distance_history)
            count == Len(distance_history)
        IN  /\ count > 0
            /\ lvl.d > 0
            /\ lvl.n >= 0
            /\ lvl.n <= 100 * lvl.d
            /\ total <= 2 * count => lvl.n = 0
            /\ total >= 30 * count => lvl.n = 100 * lvl.d
            /\ (2 * count < total /\ total < 30 * count)
                  => lvl.n * 28 * count = 100 * (total - 2 * count) * lvl.d
            /\ volume_level # <<>> => volume_level = <<lvl>>

\* a full window of 0.3 gives 100
C5_Witness ==
    /\ smoothing_window >= 2
    /\ Len(distance_history) = smoothing_window
    /\ \A i \in 1..Len(distance_history) : distance_history[i] = 30
    /\ emitted # <<>>
    /\ emitted[Len(emitted)].n = 100 * emitted[Len(emitted)].d

\* q2 is q after one append to a deque of capacity cap
SlidByOne(q, q2, cap) ==
    IF Len(q) < cap
    THEN Len(q2) = Len(q) + 1 /\ SubSeq(q2, 1, Len(q)) = q
    ELSE Len(q2) = cap /\ SubSeq(q2, 1, cap - 1) = Tail(q)

\* C7: the capacities never change; no window is ever longer than its
\* capacity; and a window that changes has taken one sample at its end,
\* dropping exactly its oldest sample when it was full.
C7_WindowsBounded ==
    [][/\ smoothing_window' = smoothing_window
       /\ history_length' = history_length
       /\ Len(distance_history') <= smoothing_window
       /\ Len(fingers_history') <= smoothing_window
       /\ Len(hand_positions') <= history_length
       /\ distance_history' # distance_history
             => SlidByOne(distance_history, distance_history', smoothing_window)
       /\ fingers_history' # fingers_history
             => SlidByOne(fingers_history, fingers_history', smoothing_window)
       /\ hand_positions' # hand_positions
             => SlidByOne(hand_positions, hand_positions', history_length)]_vars

\* a window of two that held <<40, 2>> and now holds <<2, 30>>
C7_Witness ==
    /\ smoothing_window = 2
    /\ distance_history = <<2, 30>>
    /\ Len(emitted) = 2
    /\ emitted[1] = [n |-> 3800, d |-> 56]

\* C11: a frame in which no hand is detected returns no volume level, hands
\* nothing to set_volume and leaves the distance window and the finger-count
\* window as they were.
C11_NoHandFrameChangesNothing ==
    [][volume_level' = <<>>
          => /\ distance_history' = distance_history
             /\ fingers_history' = fingers_history
             /\ emitted' = emitted]_vars

\* a no-hand frame after two frames with a hand
C11_Witness ==
    /\ volume_level = <<>>
    /\ Len(distance_history) >= 2
    /\ Len(fingers_history) >= 2
    /\ Len(emitted) = 2

-----------------------------------------------------------------------------
(* CountSpec: the routines that count raised digits, each called once on an *)
(* observation and a handedness                                              *)

\* GestureManager.count_raised_fingers: handedness is a parameter the body
\* never reads
count_raised_fingers(lm, hd) ==
    CountTrue(<<is_finger_raised(lm[4], lm[3]),
                is_finger_raised(lm[8], lm[6]),
                is_finger_raised(lm[12], lm[10]),
                is_finger_raised(lm[16], lm[14]),
                is_finger_raised(lm[20], lm[18])>>)

\* the thumb pip left or right of the tip at (50,50), above or below it
DigitObservations ==
    {Observation(tp, 60, 40, it, m, r, p) :
        tp \in {Pt(47, 54), Pt(53, 54), Pt(47, 44), Pt(53, 44), Pt(50, 58)},
        it \in {Pt(50, 35), Pt(50, 48)},
        m \in {30, 45}, r \in {30, 45}, p \in {30, 45}}

CountInit ==
    /\ InitManager
    /\ InitController
    /\ InitComponents
    /\ history_length = history_length_default
    /\ smoothing_window = smoothing_window_default
    /\ landmarks \in DigitObservations
    /\ handedness \in Handednesses
    /\ hand_center = <<50, 50>>
    /\ history_positions = <<>>
    /\ frame_width = 100
    /\ gesture = Pending
    /\ swipe = Pending

CountUnchanged ==
    UNCHANGED <<managerVars, callVars, gesture, swipe, sessionVars, controllerVars,
                monitorVars, configVars>>

\* HandGestureVolumeController.count_fingers(landmarks, handedness)
CountFingers ==
    /\ raised = <<>>
    /\ raised' = <<"count_fingers", count_fingers(landmarks, handedness)>>
    /\ CountUnchanged

\* GestureManager.count_raised_fingers(landmarks, handedness)
CountRaisedFingers ==
    /\ raised = <<>>
    /\ raised' = <<"count_raised_fingers",
                   count_raised_fingers(landmarks, handedness)>>
    /\ CountUnchanged

\* GestureManager.detect_palm_open(landmarks)
DetectPalmOpen ==
    /\ raised = <<>>
    /\ raised' = <<"detect_palm_open", detect_palm_open(landmarks)>>
    /\ CountUnchanged

CountNext == CountFingers \/ CountRaisedFingers \/ DetectPalmOpen

CountSpec == CountInit /\ [][CountNext]_vars

\* the thumb by x, mirrored with the handedness
ThumbRaisedByX(lm, hd) ==
    IF hd = "Right" THEN lm[4].x < lm[3].x ELSE lm[4].x > lm[3].x

\* C15: in every routine that counts raised digits or tests for the open palm
\* the thumb counts as raised by its x coordinate, mirrored with the
\* handedness (Right: tip.x < pip.x, Left: tip.x > pip.x), beside the four
\* fingers counted by y.
C15_ThumbMirrorsWithHandedness ==
    raised # <<>> =>
        LET digits ==
                CountTrue(<<ThumbRaisedByX(landmarks, handedness),
                            landmarks[8].y < landmarks[6].y,
                            landmarks[12].y < landmarks[10].y,
                            landmarks[16].y < landmarks[14].y,
                            landmarks[20].y < landmarks[18].y>>)
        IN  IF raised[1] = "detect_palm_open"
            THEN raised[2] = (digits >= 4)
            ELSE raised[2] = digits

-----------------------------------------------------------------------------
(* MonitorSpec: the PerformanceMonitor shared by two threads.  Thread 1 is   *)
(* the processing thread and calls the record_ methods, thread 2 is the     *)
(* reporting thread and calls the get_ methods and print_performance_stats. *)
(* A call in progress is a frame [op, pc, arg, local] on its thread's       *)
(* stack.  self.lock is a threading.Lock: it is not reentrant, acquire      *)
(* waits until the lock is free whoever holds it.  Durations are whole      *)
(* milliseconds.                                                            *)

\* largest window_size a monitor is built with
MaxMonitorWindow == 2
\* record_frame calls a run starts
MaxRecords == 3

Processing == 1
Reporting == 2

RecordOps == {"record_frame", "record_gesture", "record_volume_control"}
AverageOps == {"get_fps", "get_avg_frame_time", "get_avg_gesture_time",
               "get_avg_volume_time"}
\* the methods whose body is a `with self.lock:` block
LockedOps == RecordOps \cup AverageOps \cup {"get_performance_summary"}

\* the calls a thread makes, with their argument
Calls(t) ==
    IF t = Processing
    THEN ({"record_frame"} \X {1, 2}) \cup ({"record_gesture"} \X {1})
         \cup ({"record_volume_control"} \X {1})
    ELSE (AverageOps \cup {"get_performance_summary", "print_performance_stats"})
         \X {0}

\* where a method starts once it is entered (and, if locked, has the lock)
FirstPc(op) ==
    IF op \in RecordOps THEN "append"
    ELSE IF op \in AverageOps THEN "compute"
    ELSE IF op = "get_performance_summary" THEN "fps"
    ELSE "summary"

\* the statement after pc in op; "release" leaves the with block and returns,
\* "return" returns
After(op, pc) ==
    CASE op = "record_frame" /\ pc = "append" -> "load"
      [] op = "record_frame" /\ pc = "load" -> "store"
      [] op = "get_performance_summary" /\ pc = "fps" -> "frame_time_ms"
      [] op = "get_performance_summary" /\ pc = "frame_time_ms" -> "gesture_time_ms"
      [] op = "get_performance_summary" /\ pc = "gesture_time_ms" -> "volume_time_ms"
      [] op = "get_performance_summary" /\ pc = "volume_time_ms" -> "total_frames"
      [] op = "print_performance_stats" /\ pc = "summary" -> "print"
      [] op = "print_performance_stats" /\ pc = "print" -> "return"
      [] OTHER -> "release"

\* the method that the statement at pc calls, "" if it calls none
Callee(op, pc) ==
    CASE op = "get_performance_summary" /\ pc = "fps" -> "get_fps"
      [] op = "get_performance_summary" /\ pc = "frame_time_ms" -> "get_avg_frame_time"
      [] op = "get_performance_summary" /\ pc = "gesture_time_ms" -> "get_avg_gesture_time"
      [] op = "get_performance_summary" /\ pc = "volume_time_ms" -> "get_avg_volume_time"
      [] op = "print_performance_stats" /\ pc = "summary" -> "get_performance_summary"
      [] OTHER -> ""

Frame(op, arg) ==
    [op |-> op, pc |-> IF op \in LockedOps THEN "acquire" ELSE FirstPc(op),
     arg |-> arg, local |-> <<>>]

\* sum(q) / len(q), 0.0 for an empty q
Average(q) == IF q = <<>> THEN Whole(0) ELSE Div(Sum(q), Len(q))

\* what the statement at pc of op leaves in the frame's local
Local(f) ==
    CASE f.op = "record_frame" /\ f.pc = "load" -> <<frame_count>>
      [] f.op = "get_fps" ->
            <<IF Sum(frame_times) > 0
              THEN Div(Len(frame_times), Sum(frame_times))
              ELSE Whole(0)>>
      [] f.op = "get_avg_frame_time" -> <<Average(frame_times)>>
      [] f.op = "get_avg_gesture_time" -> <<Average(gesture_times)>>
      [] f.op = "get_avg_volume_time" -> <<Average(volume_times)>>
      [] f.op = "get_performance_summary" /\ f.pc = "total_frames" ->
            f.local \o <<frame_count>>
      [] OTHER -> f.local

Top(t) == stack[t][Len(stack[t])]
Below(t) == SubSeq(stack[t], 1, Len(stack[t]) - 1)

MonitorUnchanged ==
    UNCHANGED <<managerVars, callVars, gesture, swipe, sessionVars, controllerVars,
                raised, configVars>>

MonitorInit ==
    /\ InitManager
    /\ InitController
    /\ raised = <<>>
    /\ InitIdleConfig
    /\ \E size \in 1..MaxMonitorWindow : InitMonitor(size)
    /\ history_length = history_length_default
    /\ smoothing_window = smoothing_window_default
    /\ landmarks = None
    /\ handedness = "Right"
    /\ hand_center = None
    /\ history_positions = <<>>
    /\ frame_width = 100
    /\ gesture = Pending
    /\ swipe = Pending

\* a thread that is in no call enters a method
Call(t, op, arg) ==
    /\ stack[t] = <<>>
    /\ op = "record_frame" => completed < MaxRecords
    /\ stack' = [stack EXCEPT ![t] = <<Frame(op, arg)>>]
    /\ UNCHANGED <<window_size, frame_times, gesture_times, volume_times,
                   frame_count, lock, completed>>
    /\ MonitorUnchanged

\* entering `with self.lock:` without waiting for the lock to be free
Acquire_without_waiting(t) ==
    /\ stack[t] # <<>>
    /\ Top(t).pc = "acquire"
    /\ lock' = t
    /\ stack' = [stack EXCEPT
                    ![t] = Append(Below(t), [Top(t) EXCEPT !.pc = FirstPc(Top(t).op)])]
    /\ UNCHANGED <<window_size, frame_times, gesture_times, volume_times,
                   frame_count, completed>>
    /\ MonitorUnchanged

\* entering `with self.lock:`: Lock.acquire() waits while the lock is held, by
\* any thread, the caller included
Acquire(t) ==
    /\ stack[t] # <<>>
    /\ Top(t).pc = "acquire"
    /\ lock = Free
    /\ lock' = t
    /\ stack' = [stack EXCEPT
                    ![t] = Append(Below(t), [Top(t) EXCEPT !.pc = FirstPc(Top(t).op)])]
    /\ UNCHANGED <<window_size, frame_times, gesture_times, volume_times,
                   frame_count, completed>>
    /\ MonitorUnchanged

\* one statement of the method the thread is in.  `self.frame_count += 1` is a
\* load and a store.
Body(t) ==
    /\ stack[t] # <<>>
    /\ Top(t).pc \notin {"acquire", "release"}
    /\ LET f == Top(t)
           callee == Callee(f.op, f.pc)
           g == [f EXCEPT !.pc = After(f.op, f.pc), !.local = Local(f)]
       IN  /\ frame_times' =
                 IF f.op = "record_frame" /\ f.pc = "append"
                 THEN DequeAppend(frame_times, f.arg, window_size)
                 ELSE frame_times
           /\ gesture_times' =
                 IF f.op = "record_gesture"
                 THEN DequeAppend(gesture_times, f.arg, window_size)
                 ELSE gesture_times
           /\ volume_times' =
                 IF f.op = "record_volume_control"
                 THEN DequeAppend(volume_times, f.arg, window_size)
                 ELSE volume_times
           /\ frame_count' =
                 IF f.op = "record_frame" /\ f.pc = "store"
                 THEN f.local[1] + 1
                 ELSE frame_count
           /\ stack' = [stack EXCEPT
                           ![t] = IF g.pc = "return" THEN Below(t)
                                  ELSE IF callee # ""
                                       THEN Below(t) \o <<g, Frame(callee, 0)>>
                                       ELSE Append(Below(t), g)]
    /\ UNCHANGED <<window_size, lock, completed>>
    /\ MonitorUnchanged

\* leaving the with block and returning: the lock is released and the value
\* goes to the caller
Release(t) ==
    /\ stack[t] # <<>>
    /\ Top(t).pc = "release"
    /\ lock' = Free
    /\ completed' = IF Top(t).op = "record_frame" THEN completed + 1 ELSE completed
    /\ stack' = [stack EXCEPT
                    ![t] = IF Below(t) = <<>> THEN <<>>
                           ELSE LET caller == Below(t)[Len(Below(t))]
                                IN  Append(SubSeq(Below(t), 1, Len(Below(t)) - 1),
                                           [caller EXCEPT
                                               !.local = @ \o Top(t).local])]
    /\ UNCHANGED <<window_size, frame_times, gesture_times, volume_times,
                   frame_count>>
    /\ MonitorUnchanged

MonitorNext ==
    \E t \in Threads :
        \/ \E c \in Calls(t) : Call(t, c[1], c[2])
        \/ Acquire(t)
        \/ Body(t)
        \/ Release(t)

MonitorSpec == MonitorInit /\ [][MonitorNext]_vars

\* the thread is inside a `with self.lock:` block, where the buffers and
\* frame_count are read and written
InWithBlock(t) ==
    \E i \in DOMAIN stack[t] :
        stack[t][i].op \in LockedOps /\ stack[t][i].pc # "acquire"

\* C12: every read and write of the rolling buffers and of frame_count is made
\* under the one lock: a thread inside a with block holds the lock, at most
\* one thread is inside one, and frame_count is the number of record_frame
\* calls that have returned (plus the one that has stored and not yet left).
C12_AccessesHoldTheLock ==
    /\ \A t \in Threads : InWithBlock(t) => lock = t
    /\ Cardinality({t \in Threads : InWithBlock(t)}) <= 1
    /\ frame_count =
          completed
          + Cardinality({t \in Threads :
                            /\ stack[t] # <<>>
                            /\ Top(t).op = "record_frame"
                            /\ Top(t).pc = "release"})

\* the reporting thread has computed an average over two recorded frames and
\* still holds the lock; the processing thread waits to record a third
C12_Witness ==
    /\ lock = Reporting
    /\ stack[Reporting] # <<>>
    /\ Top(Reporting).op = "get_avg_frame_time"
    /\ Top(Reporting).pc = "release"
    /\ stack[Processing] # <<>>
    /\ Top(Processing).op = "record_frame"
    /\ Top(Processing).pc = "acquire"
    /\ frame_count = 2
    /\ completed = 2

\* a step of thread t inside a call
ThreadStep(t) == Acquire(t) \/ Body(t) \/ Release(t)

\* C13: no call of the monitor blocks forever: a thread inside a call can take
\* its next step, or the lock it waits for is held by another thread that can
\* take its next step.
C13_NoCallBlocksForever ==
    \A t \in Threads :
        stack[t] # <<>> =>
            \/ ENABLED ThreadStep(t)
            \/ /\ lock \notin {Free, t}
               /\ ENABLED ThreadStep(lock)

-----------------------------------------------------------------------------
(* ConfigSpec: a ConfigManager and the file at its config_path *)

\* the files found at config_path: none, one that cannot be read, one that is
\* not JSON, and JSON objects
ConfigFiles ==
    {NoFile, Unreadable, Malformed,
     Json([enable_statistics |-> FALSE]),
     Json([gesture |-> [history_length |-> 3]]),
     Json([volume |-> [min_distance |-> -1]]),
     Json([volume |-> [min_distance |-> 30, max_distance |-> 2]]),
     Json([volume |-> [smoothing_window |-> 0]]),
     Json([gesture |-> [history_length |-> 0]]),
     Json([volume |-> [bogus |-> 1]]),
     Json([volume |-> [sensitivity |-> 150], gesture |-> [bogus |-> 1]])}

\* bool(value): an instance of a dataclass is true
Truthy(value) == IF value[1] = "bool" THEN value[2] ELSE TRUE

UpdateFlags(cfg, config_dict) ==
    [k \in DOMAIN cfg |->
        IF k \in DOMAIN config_dict /\ k \notin DOMAIN SectionClass
        THEN Bool(config_dict[k])
        ELSE cfg[k]]

\* _update_config_from_dict from section i on: the sections are assigned one
\* after the other, then the flags; a keyword that is no field raises TypeError
\* out of the method, after the sections before it have been assigned
RECURSIVE UpdateConfigFromDict(_, _, _)
UpdateConfigFromDict(cfg, config_dict, i) ==
    IF i > Len(SectionNames)
    THEN [config |-> UpdateFlags(cfg, config_dict), raised |-> NoException]
    ELSE LET name == SectionNames[i]
         IN  IF name \notin DOMAIN config_dict
             THEN UpdateConfigFromDict(cfg, config_dict, i + 1)
             ELSE IF ~AcceptsKeywords(SectionDefaults[name], config_dict[name])
             THEN [config |-> cfg, raised |-> "TypeError"]
             ELSE UpdateConfigFromDict(
                      [cfg EXCEPT
                          ![name] = Instance(SectionClass[name],
                                             Dataclass(SectionDefaults[name],
                                                       config_dict[name]))],
                      config_dict, i + 1)

\* load_config: a missing file is skipped; IOError and JSONDecodeError are
\* caught; anything else leaves the method
load_config(cfg, file) ==
    IF file[1] = "json"
    THEN UpdateConfigFromDict(cfg, file[2], 1)
    ELSE [config |-> cfg, raised |-> NoException]

\* save_config: asdict of something that is no dataclass instance is a
\* TypeError, which is not caught; an IOError of the write is caught
save_config(cfg, file, writable) ==
    IF \E i \in DOMAIN SectionNames : cfg[SectionNames[i]][1] = "bool"
    THEN [file |-> file, raised |-> "TypeError"]
    ELSE IF ~writable
    THEN [file |-> file, raised |-> NoException]
    ELSE [file |-> Json([k \in DOMAIN cfg |-> cfg[k][2]]), raised |-> NoException]

\* the history_length / smoothing_window arguments the components are built
\* with; deque(maxlen=n) raises ValueError for a negative n and nothing else
\* checks n, so a component exists for every n >= 0
ConstructorArguments == {-1, 0, 5}
Constructible(maxlen) == maxlen >= 0

\* the names toggle_feature is called with: two flags, a sub-configuration
\* and a name the ApplicationConfig does not have
ToggleArguments ==
    {"enable_mute_gesture", "enable_statistics", "volume", "enable_gestures"}

\* ConfigManager.__init__: the defaults, then load_config; beside it a
\* GestureManager and a HandGestureVolumeController as constructed
ConfigInit ==
    /\ InitManager
    /\ InitController
    /\ raised = <<>>
    /\ InitMonitor(30)
    /\ history_length \in {n \in ConstructorArguments : Constructible(n)}
    /\ smoothing_window \in {n \in ConstructorArguments : Constructible(n)}
    /\ landmarks = None
    /\ handedness = "Right"
    /\ hand_center = None
    /\ history_positions = <<>>
    /\ frame_width = 100
    /\ gesture = Pending
    /\ swipe = Pending
    /\ config_file \in ConfigFiles
    /\ LET loaded == load_config(ApplicationConfig, config_file)
       IN  /\ config = loaded.config
           /\ outcome = Outcome("__init__", "", <<>>, loaded.raised)

\* __init__ returned, so there is a manager to call
Constructed == ~(outcome.op = "__init__" /\ outcome.raised # NoException)

ConfigUnchanged ==
    UNCHANGED <<managerVars, callVars, gesture, swipe, sessionVars, controllerVars,
                raised, monitorVars>>

LoadConfig ==
    /\ Constructed
    /\ LET loaded == load_config(config, config_file)
       IN  /\ config' = loaded.config
           /\ outcome' = Outcome("load_config", "", <<>>, loaded.raised)
    /\ UNCHANGED config_file
    /\ ConfigUnchanged

SaveConfig(writable) ==
    /\ Constructed
    /\ LET saved == save_config(config, config_file, writable)
       IN  /\ config_file' = saved.file
           /\ outcome' = Outcome("save_config", "", <<>>, saved.raised)
    /\ UNCHANGED config
    /\ ConfigUnchanged

ResetToDefaults(writable) ==
    /\ Constructed
    /\ config' = ApplicationConfig
    /\ LET saved == save_config(ApplicationConfig, config_file, writable)
       IN  /\ config_file' = saved.file
           /\ outcome' = Outcome("reset_to_defaults", "", <<>>, saved.raised)
    /\ ConfigUnchanged

\* toggle_feature: hasattr is true of every attribute of the ApplicationConfig,
\* flag or not; the attribute is replaced by `not` its value and the
\* configuration saved; an exception of save_config leaves the method before
\* its return
ToggleFeature(feature_name, writable) ==
    /\ Constructed
    /\ IF feature_name \in DOMAIN config
       THEN LET new_state == ~Truthy(config[feature_name])
                toggled == [config EXCEPT ![feature_name] = Bool(new_state)]
                saved == save_config(toggled, config_file, writable)
            IN  /\ config' = toggled
                /\ config_file' = saved.file
                /\ outcome' = Outcome("toggle_feature", feature_name,
                                      IF saved.raised = NoException
                                      THEN <<new_state>> ELSE <<>>,
                                      saved.raised)
       ELSE /\ outcome' = Outcome("toggle_feature", feature_name, <<FALSE>>,
                                  NoException)
            /\ UNCHANGED <<config, config_file>>
    /\ ConfigUnchanged

\* the user replaces the file at config_path
EditFile(file) ==
    /\ Constructed
    /\ config_file' = file
    /\ outcome' = Outcome("edit", "", <<>>, NoException)
    /\ UNCHANGED config
    /\ ConfigUnchanged

ConfigNext ==
    \/ LoadConfig
    \/ \E writable \in BOOLEAN : SaveConfig(writable)
    \/ \E writable \in BOOLEAN : ResetToDefaults(writable)
    \/ \E name \in ToggleArguments, writable \in BOOLEAN : ToggleFeature(name, writable)
    \/ \E file \in ConfigFiles : EditFile(file)

ConfigSpec == ConfigInit /\ [][ConfigNext]_vars

\* C14: no gesture manager, volume controller or loaded configuration exists
\* with a value outside its bounds: a window size or history length below 1,
\* a negative distance, a maximum distance not above the minimum.
C14_OutOfBoundsRejected ==
    Constructed =>
        /\ history_length >= 1
        /\ smoothing_window >= 1
        /\ config.volume[1] = "VolumeConfig" =>
              /\ config.volume[2].min_distance >= 0
              /\ config.volume[2].max_distance > config.volume[2].min_distance
              /\ config.volume[2].smoothing_window >= 1
        /\ config.gesture[1] = "GestureConfig" =>
              config.gesture[2].history_length >= 1

FlagSet == {FlagNames[i] : i \in DOMAIN FlagNames}

\* C17: toggle_feature changes nothing but a boolean feature flag.  The four
\* sub-configurations are what they were; for the name of a flag that flag is
\* negated, the other flags are kept and the new value is returned; for any
\* other name the configuration is unchanged and False is returned.
C17_ToggleOnlyFlipsFlags ==
    [][outcome'.op = "toggle_feature" =>
          /\ \A i \in DOMAIN SectionNames :
                config'[SectionNames[i]] = config[SectionNames[i]]
          /\ \A k \in FlagSet \ {outcome'.arg} : config'[k] = config[k]
          /\ IF outcome'.arg \in FlagSet
             THEN /\ config'[outcome'.arg] = Bool(~config[outcome'.arg][2])
                  /\ outcome'.returned = <<config'[outcome'.arg][2]>>
             ELSE outcome'.returned = <<FALSE>>]_vars

\* the file is missing, unreadable or malformed, or one of its sections has a
\* key that is no field of the section
LoadFails(file) ==
    \/ file[1] # "json"
    \/ \E i \in DOMAIN SectionNames :
          /\ SectionNames[i] \in DOMAIN file[2]
          /\ ~(DOMAIN file[2][SectionNames[i]]
                  \subseteq DOMAIN SectionDefaults[SectionNames[i]])

\* C18: load_config never raises, and when the file cannot be loaded it
\* leaves the configuration as it was, no section updated.
C18_LoadIsAllOrNothing ==
    [][outcome'.op = "load_config" =>
          /\ outcome'.raised = NoException
          /\ LoadFails(config_file) => config' = config]_vars

-----------------------------------------------------------------------------
(* Properties of single calls (Spec) *)

SwipeLabels == {SWIPE_LEFT, SWIPE_RIGHT, SWIPE_UP, SWIPE_DOWN}

\* the seven pose rules in the order of the cascade, each with its label
PoseCascade(lm, hd) ==
    << <<detect_thumbs_up(lm), THUMBS_UP>>,
       <<detect_peace_sign(lm, hd), PEACE>>,
       <<detect_rock_gesture(lm), ROCK>>,
       <<detect_ok_sign(lm), OK_SIGN>>,
       <<detect_pointing(lm), POINT>>,
       <<detect_palm_open(lm), PALM>>,
       <<detect_fist(lm), FIST>> >>

AnyPose(lm, hd) ==
    LET rules == PoseCascade(lm, hd) IN \E i \in 1..7 : rules[i][1]

\* the displacement of the call's centre from the oldest sample of its history
DispX == hand_center[1] - history_positions[1][1]
DispY == hand_center[2] - history_positions[1][2]

\* |d| / frame_width > 0.1, for the positive widths of the model
OverThreshold(d) == 10 * Abs(d) > frame_width

\* the label the displacement rules of detect_swipe give
DisplacementLabel ==
    IF OverThreshold(DispX) /\ Abs(DispX) > Abs(DispY)
    THEN IF DispX > 0 THEN SWIPE_RIGHT ELSE SWIPE_LEFT
    ELSE IF OverThreshold(DispY) /\ Abs(DispY) > Abs(DispX)
         THEN IF DispY < 0 THEN SWIPE_UP ELSE SWIPE_DOWN
         ELSE None

SwipeFires == Len(history_positions) >= 3 /\ DisplacementLabel # None

\* square of the thumb-tip to index-tip distance, in 1/10000
ThumbIndexSq ==
    (landmarks[4].x - landmarks[8].x) * (landmarks[4].x - landmarks[8].x)
    + (landmarks[4].y - landmarks[8].y) * (landmarks[4].y - landmarks[8].y)

\* C1: the label recognize_gesture returns is the label of the first pose rule,
\* in the order thumbs-up, peace, rock, OK-sign, pointing, palm, fist, that holds
\* of the landmarks, whatever later rules, the history or the thumb-index
\* distance say.
C1_FirstMatchWins ==
    gesture # Pending =>
        LET rules == PoseCascade(landmarks, handedness)
        IN  \A i \in 1..7 :
                (rules[i][1] /\ \A j \in 1..(i - 1) : ~rules[j][1])
                => gesture = rules[i][2]

\* a thumbs-up that is also a peace sign is labelled thumbs-up
C1_Witness ==
    /\ gesture = THUMBS_UP
    /\ detect_peace_sign(landmarks, handedness)
    /\ SwipeFires

\* C2: when some pose rule holds the result is no swipe label, whatever the
\* history; when the swipe check fires on a frame without a pose the result is
\* that swipe label, never pinch or open hand; and the pinch/open-hand fallback
\* (with its default, unknown) gives the result only when no pose rule holds
\* and no swipe fires.
C2_StagePrecedence ==
    gesture # Pending =>
        /\ AnyPose(landmarks, handedness) => gesture \notin SwipeLabels
        /\ (~AnyPose(landmarks, handedness) /\ SwipeFires)
              => (gesture = DisplacementLabel /\ gesture \notin {PINCH, OPEN_HAND})
        /\ gesture \in {PINCH, OPEN_HAND, UNKNOWN}
              => (~AnyPose(landmarks, handedness) /\ ~SwipeFires)

\* a held pose on a frame whose history alone would give a swipe
C2_Witness ==
    /\ gesture \in {PEACE, ROCK, OK_SIGN, POINT, PALM, FIST}
    /\ SwipeFires

\* C6: recognize_gesture returns one member of GestureType for every input, and
\* it is UNKNOWN exactly when no pose rule holds, no swipe fires and the
\* thumb-index distance lies in [0.05, 0.15].
C6_OneLabelPerFrame ==
    gesture # Pending =>
        /\ gesture \in GestureType
        /\ gesture = UNKNOWN <=>
              (/\ ~AnyPose(landmarks, handedness)
               /\ ~SwipeFires
               /\ ThumbIndexSq >= 25
               /\ ThumbIndexSq <= 225)

\* UNKNOWN on an empty history with the distance on the pinch boundary
C6_Witness ==
    /\ gesture = UNKNOWN
    /\ history_positions = <<>>
    /\ ThumbIndexSq = 25

\* C8: on a history of at least three samples detect_swipe returns the label of
\* the displacement from the oldest sample: right/left iff |dx|/w > 0.1 and
\* |dx| > |dy|, else up/down iff |dy|/w > 0.1 and |dy| > |dx|, else none.
C8_SwipeByDisplacement ==
    (swipe # Pending /\ Len(history_positions) >= 3) => swipe = DisplacementLabel

\* a tie well over the threshold gives no swipe
C8_Witness ==
    /\ swipe = None
    /\ Len(history_positions) >= 3
    /\ Abs(DispX) = Abs(DispY)
    /\ OverThreshold(DispX)

\* C9: with fewer than three samples in the history detect_swipe returns none,
\* and recognize_gesture returns no swipe label.
C9_NoSwipeOnShortHistory ==
    Len(history_positions) < 3 =>
        (swipe \in {Pending, None} /\ gesture \notin SwipeLabels)

\* two samples and a displacement that would be a swipe
C9_Witness ==
    /\ swipe = None
    /\ Len(history_positions) = 2
    /\ OverThreshold(DispX)
    /\ Abs(DispX) > Abs(DispY)

====
